---- MODULE Spec2Model ----
(***************************************************************************)
(* Skill system: the capability registry (core/registry.py), the session   *)
(* state reducers (core/state.py) and the per-call dynamic tool filter     *)
(* (middleware/skill_middleware.py, middleware/skill_middleware_simple.py). *)
(***************************************************************************)
EXTENDS Integers, Sequences, FiniteSets, TLC

\* ------------------------------------------------------------------ bounds

\* Longest incoming name list handed to a reducer in one step.
MaxIn == 2
\* Largest max_skills tried for skill_list_fifo (0..MaxK).
MaxK == 2
\* Longest current list drawn when a reducer is applied as a pure function.
MaxCur == 2
\* Most tools a skill of the universe carries.
MaxTools == 2

\* Skill names a conversation or a registration may mention.
Names == {"A", "B", "C"}
\* Names under which skills get registered; the other names are never
\* registered.
RegNames == {"A", "B"}

\* Loader invocations followed in the load-by-load session (one more than the
\* largest K, plus one reload).
MaxLoads == MaxK + 2

\* Entries of a scanned skills directory.
MaxDir == 2

\* Registrations followed in order.
MaxRegs == 3

\* Websocket connections to the dashboard server.
MaxConns == 2

\* ------------------------------------------------------------ Python lists

RECURSIVE SeqsUpTo(_, _)
\* All sequences over S of length at most n.
SeqsUpTo(S, n) ==
    IF n = 0 THEN {<<>>}
    ELSE LET shorter == SeqsUpTo(S, n - 1)
         IN  shorter \cup {Append(s, x) : s \in {t \in shorter : Len(t) = n - 1}, x \in S}

\* s in lst
Contains(lst, s) == \E i \in 1..Len(lst) : lst[i] = s

\* lst[:n] for n >= 0
SliceHead(lst, n) == SubSeq(lst, 1, IF n < Len(lst) THEN n ELSE Len(lst))

\* lst[-n:] for n >= 0.  Python reads -0 as 0, so lst[-0:] is lst[0:], the
\* whole list; for n > len(lst) the start index is clamped to 0.
SliceLast(lst, n) ==
    IF n = 0 \/ n >= Len(lst) THEN lst
    ELSE SubSeq(lst, Len(lst) - n + 1, Len(lst))

\* [s for s in new if s not in current]
NotIn(current, new) == SelectSeq(new, LAMBDA s : ~Contains(current, s))

\* ---------------------------------------------------------------- reducers

\* Variant of skill_list_reducer that merges incoming into current.
skill_list_reducer_merging(current, new) == current \o NotIn(current, new)

\* skill_list_reducer(current, new)
skill_list_reducer(current, new) == new

\* Variant of skill_list_accumulator that appends incoming unfiltered.
skill_list_accumulator_unfiltered(current, new) ==
    IF current = <<>> THEN new ELSE current \o new

\* Variant of skill_list_accumulator that puts the new names first.
skill_list_accumulator_prepending(current, new) ==
    IF current = <<>> THEN new ELSE NotIn(current, new) \o current

\* skill_list_accumulator(current, new)
skill_list_accumulator(current, new) ==
    IF current = <<>> THEN new
    ELSE current \o NotIn(current, new)

\* Variant of skill_list_fifo that keeps the oldest entries, combined[:max_skills].
skill_list_fifo_keep_oldest(max_skills, current, new) ==
    IF current = <<>> THEN SliceHead(new, max_skills)
    ELSE SliceHead(current \o NotIn(current, new), max_skills)

\* Variant of skill_list_fifo that tracks recency: a reloaded name moves to
\* the end.
skill_list_fifo_recency(max_skills, current, new) ==
    IF current = <<>> THEN SliceHead(new, max_skills)
    ELSE SliceLast(NotIn(new, current) \o new, max_skills)

\* skill_list_fifo(max_skills)(current, new)
skill_list_fifo(max_skills, current, new) ==
    IF current = <<>> THEN SliceHead(new, max_skills)
    ELSE SliceLast(current \o NotIn(current, new), max_skills)

\* The reducer policies: SkillState, SkillStateAccumulative, SkillStateFIFO(K).
Modes ==
    {[kind |-> "replace", max_skills |-> 0], [kind |-> "accumulate", max_skills |-> 0]}
    \cup {[kind |-> "fifo", max_skills |-> k] : k \in 0..MaxK}

\* The reducer the annotation of skills_loaded selects.
Reduce(m, current, new) ==
    CASE m.kind = "replace" -> skill_list_reducer(current, new)
      [] m.kind = "accumulate" -> skill_list_accumulator(current, new)
      [] OTHER -> skill_list_fifo(m.max_skills, current, new)

Incoming == SeqsUpTo(Names, MaxIn)

\* ------------------------------------------------------------ Python dicts
\* A dict is kept as the sequence of its items in insertion order.

Keys(d) == [i \in 1..Len(d) |-> d[i].key]

HasKey(d, k) == \E i \in 1..Len(d) : d[i].key = k

\* d[k], for a key the dict holds
Lookup(d, k) == d[CHOOSE i \in 1..Len(d) : d[i].key = k].val

\* A dict whose assignment keeps the value a held key already has.
DictSet_keep_first(d, k, v) ==
    IF HasKey(d, k) THEN d ELSE Append(d, [key |-> k, val |-> v])

\* d[k] = v: a held key keeps its position, a new key goes last
DictSet(d, k, v) ==
    IF HasKey(d, k)
    THEN [i \in 1..Len(d) |-> IF d[i].key = k THEN [key |-> k, val |-> v] ELSE d[i]]
    ELSE Append(d, [key |-> k, val |-> v])

\* A dict whose deletion drops the key and everything inserted after it.
DictDel_truncating(d, k) ==
    IF \E i \in 1..Len(d) : d[i].key = k
    THEN SubSeq(d, 1, (CHOOSE i \in 1..Len(d) : d[i].key = k) - 1)
    ELSE d

\* del d[k]
DictDel(d, k) == SelectSeq(d, LAMBDA e : e.key # k)

\* ------------------------------------------------------------------ skills

\* get_loader_tool() returning None
None == <<>>

\* The i-th tool of skill n; its loader is tool 0.
Tool(n, i) == <<n, i>>

\* A BaseSkill with every field of its SkillMetadata that the registry reads,
\* its get_tools() and its get_loader_tool().
SkillWith(n, d, k, ld, en, tags, vis) ==
    [metadata |-> [name |-> n, description |-> d, enabled |-> en,
                   tags |-> tags, visibility |-> vis],
     tools |-> [i \in 1..k |-> Tool(n, i)],
     loader |-> IF ld THEN Tool(n, 0) ELSE None]

\* A BaseSkill whose metadata keeps the defaults tags=[] and
\* visibility="public".
Skill(n, d, k, ld, en) == SkillWith(n, d, k, ld, en, <<>>, "public")

\* The skills a caller may hand to register: well-formed ones, and ones with
\* an empty name, an empty description, no tool or no loader.
SkillUniverse ==
    {Skill(n, "d", k, TRUE, en) : n \in RegNames, k \in 1..MaxTools, en \in BOOLEAN}
    \cup {Skill("", "d", 1, TRUE, TRUE)}
    \cup {Skill(n, "", 1, TRUE, TRUE) : n \in RegNames}
    \cup {Skill(n, "d", 0, TRUE, TRUE) : n \in RegNames}
    \cup {Skill(n, "d", 1, FALSE, TRUE) : n \in RegNames}

\* Variant of validate without the check of get_tools().
validate_without_tools_check(skill) ==
    IF skill.metadata.name = "" THEN "ValueError"
    ELSE IF skill.metadata.description = "" THEN "ValueError"
    ELSE IF skill.loader = None THEN "ValueError"
    ELSE "ok"

\* BaseSkill.validate: the exception it raises, or "ok"
validate(skill) ==
    IF skill.metadata.name = "" THEN "ValueError"
    ELSE IF skill.metadata.description = "" THEN "ValueError"
    ELSE IF skill.tools = <<>> THEN "ValueError"
    ELSE IF skill.loader = None THEN "ValueError"
    ELSE "ok"

\* ---------------------------------------------------------------- registry

\* The descriptor predicates handed to list_skills as filter_fn; NoFilter is
\* filter_fn=None.
NoFilter == "None"
Accepts(filter_fn, meta) ==
    CASE filter_fn = "enabled" -> meta.enabled
      [] filter_fn = "public" -> meta.visibility = "public"
      [] filter_fn = "tagged_x" -> Contains(meta.tags, "x")
      [] filter_fn = "nothing" -> FALSE
      [] OTHER -> TRUE

\* The predicates tried as filter_fn.
Filters == {"enabled", "public", "tagged_x", "nothing"}

\* A list_skills that ignores filter_fn.
list_skills_unfiltered(sk, mc, filter_fn) == Keys(sk)

\* SkillRegistry.list_skills(filter_fn)
list_skills(sk, mc, filter_fn) ==
    IF filter_fn = NoFilter THEN Keys(sk)
    ELSE Keys(SelectSeq(mc, LAMBDA e : Accepts(filter_fn, e.val)))

\* self._skills[name]: the skill, or the KeyError a missing key raises
Subscript(sk, name) ==
    IF HasKey(sk, name) THEN [raised |-> "none", val |-> Lookup(sk, name)]
    ELSE [raised |-> "KeyError", val |-> None]

RECURSIVE LoaderLoop(_, _, _)
\* The loop of get_all_loader_tools over skill_names, from its i-th name on:
\* self._skills[name] raises KeyError for a name the dict does not hold.
LoaderLoop(sk, skill_names, i) ==
    IF i > Len(skill_names) THEN [raised |-> "none", tools |-> <<>>]
    ELSE LET skill == Subscript(sk, skill_names[i])
         IN  IF skill.raised # "none" THEN [raised |-> skill.raised, tools |-> <<>>]
             ELSE LET rest == LoaderLoop(sk, skill_names, i + 1)
                  IN  IF rest.raised # "none" THEN rest
                      ELSE [raised |-> "none",
                            tools |-> (IF skill.val.metadata.enabled
                                       THEN <<skill.val.loader>> ELSE <<>>)
                                      \o rest.tools]

\* SkillRegistry.get_all_loader_tools(filter_fn)
get_all_loader_tools(sk, mc, filter_fn) ==
    LoaderLoop(sk, list_skills(sk, mc, filter_fn), 1)

\* Variant of ToolsOfLoaded without the check of metadata.enabled.
ToolsOfLoaded_ignoring_enabled(sk, name) ==
    IF HasKey(sk, name)
    THEN [raised |-> "none", tools |-> Lookup(sk, name).tools]
    ELSE [raised |-> "none", tools |-> <<>>]

\* Variant of ToolsOfLoaded without the `name in self._skills` guard.
ToolsOfLoaded_unguarded(sk, name) ==
    LET skill == Subscript(sk, name)
    IN  IF skill.raised # "none" THEN [raised |-> skill.raised, tools |-> <<>>]
        ELSE [raised |-> "none",
              tools |-> IF skill.val.metadata.enabled THEN skill.val.tools ELSE <<>>]

\* One pass of the loop of get_tools_for_skills: the tools name adds.  The
\* subscript is guarded by `name in self._skills`.
ToolsOfLoaded(sk, name) ==
    IF HasKey(sk, name)
    THEN LET skill == Subscript(sk, name)
         IN  IF skill.raised # "none" THEN [raised |-> skill.raised, tools |-> <<>>]
             ELSE [raised |-> "none",
                   tools |-> IF skill.val.metadata.enabled THEN skill.val.tools ELSE <<>>]
    ELSE [raised |-> "none", tools |-> <<>>]

RECURSIVE LoadedLoop(_, _, _)
\* The loop of get_tools_for_skills over skill_names, from its i-th name on.
LoadedLoop(sk, skill_names, i) ==
    IF i > Len(skill_names) THEN [raised |-> "none", tools |-> <<>>]
    ELSE LET first == ToolsOfLoaded(sk, skill_names[i])
         IN  IF first.raised # "none" THEN first
             ELSE LET rest == LoadedLoop(sk, skill_names, i + 1)
                  IN  IF rest.raised # "none" THEN rest
                      ELSE [raised |-> "none", tools |-> first.tools \o rest.tools]

\* Variant of get_tools_for_skills that puts the loaders last.
get_tools_for_skills_loaders_last(sk, mc, skill_names) ==
    LET loaders == get_all_loader_tools(sk, mc, NoFilter)
        loaded == LoadedLoop(sk, skill_names, 1)
    IN  IF loaders.raised # "none" THEN loaders
        ELSE IF loaded.raised # "none" THEN loaded
        ELSE [raised |-> "none", tools |-> loaded.tools \o loaders.tools]

\* SkillRegistry.get_tools_for_skills(skill_names)
get_tools_for_skills(sk, mc, skill_names) ==
    LET loaders == get_all_loader_tools(sk, mc, NoFilter)
    IN  IF loaders.raised # "none" THEN loaders
        ELSE LET loaded == LoadedLoop(sk, skill_names, 1)
             IN  IF loaded.raised # "none" THEN loaded
                 ELSE [raised |-> "none", tools |-> loaders.tools \o loaded.tools]

\* SkillRegistry.__len__
__len__(sk) == Len(sk)

\* SkillRegistry.__contains__(skill_name)
__contains__(sk, skill_name) == HasKey(sk, skill_name)

\* ------------------------------------------------------------------ search

\* The characters of the strings that occur as names, descriptions and
\* queries: every string but these three is a single character.
Chars(s) ==
    CASE s = "" -> <<>>
      [] s = "ab" -> <<"a", "b">>
      [] s = "AB" -> <<"A", "B">>
      [] OTHER -> <<s>>

\* A lower() that leaves the text as it is.
lower_keeping_case(text) == text

\* str.lower(), over the letters in use
lower(text) ==
    [i \in 1..Len(text) |->
        CASE text[i] = "A" -> "a"
          [] text[i] = "B" -> "b"
          [] text[i] = "C" -> "c"
          [] text[i] = "D" -> "d"
          [] OTHER -> text[i]]

\* q in t, for strings
IsSubstring(q, t) ==
    /\ Len(q) <= Len(t)
    /\ \E i \in 0..(Len(t) - Len(q)) : SubSeq(t, i + 1, i + Len(q)) = q

\* visibility=None
Unset == "None"

\* Whether search keeps a descriptor: the three filters of its loop body, each
\* skipped when its argument is falsy.
Matches(meta, query, tags, visibility) ==
    /\ query # "" =>
           \/ IsSubstring(lower(Chars(query)), lower(Chars(meta.name)))
           \/ IsSubstring(lower(Chars(query)), lower(Chars(meta.description)))
    /\ tags # <<>> => \E i \in 1..Len(tags) : Contains(meta.tags, tags[i])
    /\ ~(visibility \notin {Unset, ""} /\ meta.visibility # visibility)

\* SkillRegistry.search(query, tags, visibility); tags=None is the empty list
search(mc, query, tags, visibility) ==
    LET values == [i \in 1..Len(mc) |-> mc[i].val]
    IN  SelectSeq(values, LAMBDA meta : Matches(meta, query, tags, visibility))

\* ------------------------------------------------------------------- state

VARIABLES
    skills,          \* SkillRegistry._skills
    metadata_cache,  \* SkillRegistry._metadata_cache
    raised,          \* what the last registry call raised, "none" if nothing
    returned,        \* what the last registry call returned: its type and value
    mode,            \* the reducer annotated on skills_loaded
    skills_loaded,   \* the session's skills_loaded channel
    hist,            \* the calls so far: the lists loaded, or the names registered
    request,         \* the model request being filtered, if any
    logger,          \* the logger: its level, and the records of the last call
    middleware,      \* the middleware's configuration: verbose and filter_fn
    threads,         \* where a writer and a reader sharing the registry stand
    server           \* the dashboard server: its manager and its connections

vars == <<skills, metadata_cache, raised, returned, mode, skills_loaded, hist, request,
          logger, middleware, threads, server>>

\* What no call of the registry, the reducers or the filter changes.
settings == <<mode, middleware, threads, server>>

registry == <<skills, metadata_cache>>

\* A returned value, filed under its Python type; a call that raises returns
\* nothing.
Return(type, val) ==
    [type  |-> type,
     skill |-> IF type = "BaseSkill" THEN <<val>> ELSE <<>>,
     names |-> IF type = "List[str]" THEN val ELSE <<>>,
     metas |-> IF type = "List[SkillMetadata]" THEN val ELSE <<>>,
     count |-> IF type = "int" THEN val ELSE 0]

\* The levels the registry logs at, and their order (logging.INFO < WARNING < ERROR).
Levels == <<"INFO", "WARNING", "ERROR">>

Rank(level) == CHOOSE i \in 1..Len(Levels) : Levels[i] = level

\* logger.info / logger.warning / logger.error: the record is emitted when its
\* level reaches the logger's level.
Emit(records, level, msg) ==
    IF Rank(level) >= Rank(logger.level)
    THEN Append(records, [level |-> level, msg |-> msg])
    ELSE records

\* The logger after a call that emitted these records.
Logged(records) == [level |-> logger.level, records |-> records]

\* setup_logger(level=...) before anything is logged.
setup_logger(level) == [level |-> level, records |-> <<>>]

\* The tool predicates handed to a middleware as filter_fn; NoToolFilter is
\* filter_fn=None. A tool is <<skill name, index>>, the loader has index 0.
NoToolFilter == "None"

ToolAccepts(filter_fn, tool) ==
    CASE filter_fn = "loaders_only" -> tool[2] = 0
      [] filter_fn = "not_of_A" -> tool[1] # "A"
      [] filter_fn = "nothing" -> FALSE
      [] OTHER -> TRUE

\* The tool predicates tried as filter_fn.
ToolFilters == {"loaders_only", "not_of_A", "nothing"}

\* SkillMiddleware(registry, verbose, filter_fn) and
\* SimpleSkillMiddleware(registry, verbose, filter_fn): what __init__ stores.
SkillMiddleware(verbose, filter_fn) == [verbose |-> verbose, filter_fn |-> filter_fn]

\* A thread that is in no registry call.
Idle == [pc |-> "idle", op |-> "none", name |-> "", skill |-> <<>>, names |-> <<>>,
         raised |-> "none"]

\* Every registry call is made by one caller, start to end.
NoThreads == [writer |-> Idle, reader |-> Idle]

\* The dashboard server is not running.
NoServer == [agent |-> FALSE, is_processing |-> FALSE, in_flight |-> 0, conns |-> <<>>]

\* No model call in progress.
NoRequest ==
    [active |-> FALSE, state |-> "", seen |-> <<>>, raised |-> "none", tools |-> <<>>]

\* A fresh SkillRegistry and a conversation that starts with nothing loaded;
\* the deployment logs errors only.
Init ==
    /\ skills = <<>>
    /\ metadata_cache = <<>>
    /\ raised = "none"
    /\ returned = Return("NoneType", None)
    /\ mode \in Modes
    /\ skills_loaded = <<>>
    /\ hist = <<>>
    /\ request = NoRequest
    /\ logger = setup_logger("ERROR")
    /\ middleware = SkillMiddleware(FALSE, NoToolFilter)
    /\ threads = NoThreads
    /\ server = NoServer

\* SkillRegistry.register(skill). (hist is no part of the program: each
\* specification says what it records there.)
register(skill) ==
    /\ ~request.active
    /\ IF validate(skill) # "ok"
       THEN /\ raised' = validate(skill)
            /\ UNCHANGED registry
            /\ logger' = Logged(<<>>)
       ELSE /\ skills' = DictSet(skills, skill.metadata.name, skill)
            /\ metadata_cache' = DictSet(metadata_cache, skill.metadata.name, skill.metadata)
            /\ raised' = "none"
            /\ logger' = Logged(Emit(IF HasKey(skills, skill.metadata.name)
                                     THEN Emit(<<>>, "WARNING", "already registered")
                                     ELSE <<>>,
                                     "INFO", "Registered skill"))
    /\ returned' = Return("NoneType", None)
    /\ UNCHANGED <<settings, skills_loaded, request>>

\* An unregister that forgets the descriptor cache.
unregister_skills_only(skill_name) ==
    /\ ~request.active
    /\ skills' = DictDel(skills, skill_name)
    /\ raised' = "none"
    /\ returned' = Return("NoneType", None)
    /\ logger' = Logged(<<>>)
    /\ UNCHANGED <<metadata_cache, settings, skills_loaded, hist, request>>

\* SkillRegistry.unregister(skill_name)
unregister(skill_name) ==
    /\ ~request.active
    /\ IF HasKey(skills, skill_name)
       THEN /\ skills' = DictDel(skills, skill_name)
            /\ metadata_cache' = DictDel(metadata_cache, skill_name)
            /\ logger' = Logged(Emit(<<>>, "INFO", "Unregistered skill"))
       ELSE /\ UNCHANGED registry
            /\ logger' = Logged(<<>>)
    /\ raised' = "none"
    /\ returned' = Return("NoneType", None)
    /\ UNCHANGED <<settings, skills_loaded, hist, request>>

\* One state update of the skills_loaded channel: the annotated reducer folds
\* the incoming list into the current one.
ApplyReducer(new) ==
    /\ ~request.active
    /\ skills_loaded' = Reduce(mode, skills_loaded, new)
    /\ UNCHANGED <<registry, raised, returned, settings, request, logger>>

\* A get that answers None for a name the registry does not hold.
get_or_none(sk, skill_name) ==
    IF ~HasKey(sk, skill_name) THEN [raised |-> "none", val |-> None]
    ELSE [raised |-> "none", val |-> Lookup(sk, skill_name)]

\* SkillRegistry.get(skill_name): the skill, or the SkillNotFoundError raised
get(sk, skill_name) ==
    IF ~HasKey(sk, skill_name) THEN [raised |-> "SkillNotFoundError", val |-> None]
    ELSE [raised |-> "none", val |-> Lookup(sk, skill_name)]

\* A call of SkillRegistry.get(skill_name)
Get(skill_name) ==
    /\ ~request.active
    /\ raised' = get(skills, skill_name).raised
    /\ returned' = IF get(skills, skill_name).raised = "none"
                   THEN Return("BaseSkill", get(skills, skill_name).val)
                   ELSE Return("NoneType", None)
    /\ logger' = Logged(<<>>)
    /\ UNCHANGED <<registry, settings, skills_loaded, hist, request>>

\* A call of SkillRegistry.list_skills(filter_fn)
ListSkills(filter_fn) ==
    /\ ~request.active
    /\ raised' = "none"
    /\ returned' = Return("List[str]", list_skills(skills, metadata_cache, filter_fn))
    /\ logger' = Logged(<<>>)
    /\ UNCHANGED <<registry, settings, skills_loaded, hist, request>>

\* A call of SkillRegistry.search(query, tags, visibility)
Search(query, tags, visibility) ==
    /\ ~request.active
    /\ raised' = "none"
    /\ returned' = Return("List[SkillMetadata]",
                          search(metadata_cache, query, tags, visibility))
    /\ logger' = Logged(<<>>)
    /\ UNCHANGED <<registry, settings, skills_loaded, hist, request>>

\* --------------------------------------------------------------- discovery

\* self.register(skill) as discover_and_load calls it: what it raises, the
\* registry it leaves and the records it logs after those in records.
register_into(sk, mc, skill, records) ==
    IF validate(skill) # "ok"
    THEN [raised |-> validate(skill), skills |-> sk, metadata_cache |-> mc,
          records |-> records]
    ELSE [raised |-> "none",
          skills |-> DictSet(sk, skill.metadata.name, skill),
          metadata_cache |-> DictSet(mc, skill.metadata.name, skill.metadata),
          records |-> Emit(IF HasKey(sk, skill.metadata.name)
                           THEN Emit(records, "WARNING", "already registered")
                           ELSE records,
                           "INFO", "Registered skill")]

\* SkillRegistry._load_skill_from_file on a subdirectory's entry point:
\*   "no_spec"         spec_from_file_location gives no spec or no loader
\*   "raises"          executing the module, or create_skill, raises
\*   "no_create_skill" the module defines no create_skill
\*   "not_a_skill"     create_skill returns something that is no BaseSkill
\*   "skill"           create_skill returns entry.skill[1]
_load_skill_from_file(entry) ==
    CASE entry.module = "skill" -> [raised |-> "none", val |-> entry.skill[1]]
      [] entry.module = "raises" -> [raised |-> "Exception", val |-> None]
      [] OTHER -> [raised |-> "SkillLoadError", val |-> None]

\* One turn of the loop of discover_and_load, on the entry iterdir yields.
DiscoverEntry(acc, entry) ==
    IF entry.kind # "dir" THEN acc
    ELSE IF entry.module = "absent" THEN acc
    ELSE LET loaded == _load_skill_from_file(entry)
             failed == [acc EXCEPT !.records = Emit(@, "ERROR", "Failed to load skill")]
         IN  IF loaded.raised # "none" THEN failed
             ELSE LET reg == register_into(acc.skills, acc.metadata_cache,
                                           loaded.val, acc.records)
                  IN  IF reg.raised # "none" THEN failed
                      ELSE [skills |-> reg.skills,
                            metadata_cache |-> reg.metadata_cache,
                            loaded_count |-> acc.loaded_count + 1,
                            records |-> reg.records]

\* A scan that gives up at the first subdirectory that fails.
RECURSIVE DiscoverLoop_aborting(_, _, _)
DiscoverLoop_aborting(acc, entries, i) ==
    IF i > Len(entries) THEN acc
    ELSE LET next == DiscoverEntry(acc, entries[i])
         IN  IF next.records # acc.records /\ next.loaded_count = acc.loaded_count
             THEN next
             ELSE DiscoverLoop_aborting(next, entries, i + 1)

\* for skill_path in skills_dir.iterdir(): ...
RECURSIVE DiscoverLoop(_, _, _)
DiscoverLoop(acc, entries, i) ==
    IF i > Len(entries) THEN acc
    ELSE DiscoverLoop(DiscoverEntry(acc, entries[i]), entries, i + 1)

\* SkillRegistry.discover_and_load(skills_dir): the registry it leaves, the
\* count it returns and the records it logs. It raises nothing.
discover_and_load(sk, mc, skills_dir) ==
    LET start == [skills |-> sk, metadata_cache |-> mc, loaded_count |-> 0,
                  records |-> <<>>]
    IN  IF ~skills_dir.exists
        THEN [start EXCEPT !.records = Emit(@, "WARNING", "Skills directory not found")]
        ELSE LET done == DiscoverLoop(start, skills_dir.entries, 1)
             IN  [done EXCEPT !.records = Emit(@, "INFO", "Loaded skills")]

\* A call of SkillRegistry.discover_and_load(skills_dir)
Discover(skills_dir) ==
    /\ ~request.active
    /\ LET done == discover_and_load(skills, metadata_cache, skills_dir)
       IN  /\ skills' = done.skills
           /\ metadata_cache' = done.metadata_cache
           /\ returned' = Return("int", done.loaded_count)
           /\ logger' = Logged(done.records)
    /\ raised' = "none"
    /\ UNCHANGED <<settings, skills_loaded, hist, request>>

\* ------------------------------------------------------------------ filter

\* What a filter entry point is handed as the session state:
\*   "none"     request.state is None, or skills_loaded=None
\*   "no_entry" a dict state without a skills_loaded key
\*   "dict"     a dict state holding skills_loaded
\*   "object"   a state object with a skills_loaded attribute
StateKinds == {"none", "no_entry", "dict", "object"}

\* The entry points of the filter and the state kinds each can be handed.
EntryPoints ==
    {[entry |-> e, state |-> k] : e \in {"wrap_model_call", "awrap_model_call"},
                                  k \in StateKinds}
    \cup {[entry |-> "get_tools_for_state", state |-> "object"]}
    \cup {[entry |-> "create_skill_aware_tools", state |-> k] : k \in {"none", "object"}}

\* The skills_loaded list an entry point reads from what it is handed:
\* request.state.get("skills_loaded", []), getattr(..., []), or [] for None.
ReadSkillsLoaded(kind, loaded) ==
    IF kind \in {"none", "no_entry"} THEN <<>> ELSE loaded

\* A _get_filtered_tools that hands out the loaders alone when verbose is set.
_get_filtered_tools_when_quiet(sk, mc, loaded) ==
    IF middleware.verbose THEN get_tools_for_skills(sk, mc, <<>>)
    ELSE get_tools_for_skills(sk, mc, loaded)

\* SkillMiddleware._get_filtered_tools(skills_loaded)
_get_filtered_tools(sk, mc, loaded) == get_tools_for_skills(sk, mc, loaded)

\* SimpleSkillMiddleware.get_tools_for_state(skills_loaded), before logging
get_tools_for_state(sk, mc, loaded) ==
    LET got == get_tools_for_skills(sk, mc, loaded)
    IN  IF got.raised # "none" \/ middleware.filter_fn = NoToolFilter THEN got
        ELSE [raised |-> "none",
              tools |-> SelectSeq(got.tools,
                                  LAMBDA t : ToolAccepts(middleware.filter_fn, t))]

\* The tool list an entry point computes from the names it read.
ToolsFor(entry, seen) ==
    CASE entry \in {"wrap_model_call", "awrap_model_call"} ->
             _get_filtered_tools(skills, metadata_cache, seen)
      [] entry = "get_tools_for_state" ->
             get_tools_for_state(skills, metadata_cache, seen)
      [] OTHER -> get_tools_for_skills(skills, metadata_cache, seen)

\* How the first record a verbose entry point logs begins.
LogPrefix(entry) ==
    CASE entry = "wrap_model_call" -> "[SkillMiddleware] Skills loaded"
      [] entry = "awrap_model_call" -> "[SkillMiddleware] (async) Skills loaded"
      [] OTHER -> "Skills loaded"

\* A filter that writes the names it read back into the session state.
FilterCall_writing_back(ep) ==
    /\ ~request.active
    /\ LET seen == ReadSkillsLoaded(ep.state, skills_loaded)
           got == ToolsFor(ep.entry, seen)
       IN  /\ request' = [active |-> TRUE, state |-> ep.state, seen |-> seen,
                          raised |-> got.raised, tools |-> got.tools]
           /\ skills_loaded' = seen
    /\ UNCHANGED <<registry, raised, returned, settings, hist, logger>>

\* wrap_model_call / awrap_model_call up to the call of the handler, and
\* get_tools_for_state / create_skill_aware_tools up to their return: the tool
\* list is computed from the registry and the skills_loaded read, and put on
\* the outbound request.
\* SimpleSkillMiddleware.get_tools_for_state applies filter_fn to the tools;
\* SkillMiddleware stores filter_fn and never applies it; the function
\* create_skill_aware_tools has none. With verbose set, the two middlewares
\* log the names read and the tools computed.
FilterCall(ep) ==
    /\ ~request.active
    /\ LET seen == ReadSkillsLoaded(ep.state, skills_loaded)
           got == ToolsFor(ep.entry, seen)
       IN  /\ request' = [active |-> TRUE, state |-> ep.state, seen |-> seen,
                          raised |-> got.raised, tools |-> got.tools]
           /\ logger' = Logged(IF /\ middleware.verbose
                                  /\ got.raised = "none"
                                  /\ ep.entry # "create_skill_aware_tools"
                               THEN Emit(Emit(<<>>, "INFO", LogPrefix(ep.entry)),
                                         "INFO", "tools")
                               ELSE <<>>)
    /\ UNCHANGED <<registry, raised, returned, settings, skills_loaded, hist>>

\* The handler (the model call) returns and the request is done.
HandlerReturn ==
    /\ request.active
    /\ request' = NoRequest
    /\ UNCHANGED <<registry, raised, returned, settings, skills_loaded, hist, logger>>

\* ---------------------------------------------------------- specifications

\* The skills of the universe that pass validation.
ValidSkills == {skill \in SkillUniverse : validate(skill) = "ok"}

\* The whole system serving conversations: well-formed skills come and go,
\* the state is updated and model calls are filtered, one at a time, in any
\* order.
Next ==
    \/ \E skill \in ValidSkills : register(skill) /\ UNCHANGED hist
    \/ \E name \in Names : unregister(name)
    \/ \E new \in Incoming : ApplyReducer(new) /\ UNCHANGED hist
    \/ \E ep \in EntryPoints : FilterCall(ep)
    \/ HandlerReturn

Spec == Init /\ [][Next]_vars

\* One state update whose incoming list is recorded in hist.
Fold(new) ==
    /\ ApplyReducer(new)
    /\ hist' = Append(hist, new)

\* A conversation followed load by load: each step the model invokes one
\* loader and the reducer folds that one name into the state.
Load(name) ==
    /\ Len(hist) < MaxLoads
    /\ Fold(<<name>>)

\* The names the model may load: one more than Names, so that the largest K
\* still meets K+1 distinct loads.
LoadNames == Names \cup {"D"}

NextLoads == \E name \in LoadNames : Load(name)

SpecLoads == Init /\ [][NextLoads]_vars

\* A reducer applied once as a pure function: any current list, any incoming
\* list, any policy.
InitReducer ==
    /\ skills = <<>>
    /\ metadata_cache = <<>>
    /\ raised = "none"
    /\ returned = Return("NoneType", None)
    /\ mode \in Modes
    /\ skills_loaded \in SeqsUpTo(Names, MaxCur)
    /\ hist = <<>>
    /\ request = NoRequest
    /\ logger = setup_logger("ERROR")
    /\ middleware = SkillMiddleware(FALSE, NoToolFilter)
    /\ threads = NoThreads
    /\ server = NoServer

Apply(new) ==
    /\ hist = <<>>
    /\ Fold(new)

NextReducer == \E new \in Incoming : Apply(new)

SpecReducer == InitReducer /\ [][NextReducer]_vars

\* ------------------------------------------------------------------ claims

\* a can be obtained from b by deleting positions.
RECURSIVE IsSubsequence(_, _)
IsSubsequence(a, b) ==
    IF a = <<>> THEN TRUE
    ELSE IF b = <<>> THEN FALSE
    ELSE IF a[1] = b[1] THEN IsSubsequence(Tail(a), Tail(b))
    ELSE IsSubsequence(a, Tail(b))

\* No position of lst repeats a name of an earlier position.
NoDuplicates(lst) == \A i, j \in 1..Len(lst) : lst[i] = lst[j] => i = j

\* The set of the entries of lst.
Elems(lst) == {lst[i] : i \in 1..Len(lst)}

\* How many positions of lst hold x.
Count(lst, x) == Cardinality({i \in 1..Len(lst) : lst[i] = x})

\* name is registered and its skill is enabled.
Usable(name) == HasKey(skills, name) /\ Lookup(skills, name).metadata.enabled

\* C1: from the empty state, after any sequence of reducer applications with
\* arbitrary incoming lists, under each policy, skills_loaded never holds the
\* same name twice.
C1_NoDuplicateLoaded == NoDuplicates(skills_loaded)

\* The tool list tools is exact for the loaded names loaded: a skill's tools
\* are in it iff the skill is loaded, registered and enabled, and a skill's
\* loader is in it iff the skill is registered and enabled.
ExactFor(tools, loaded) ==
    \A n \in Names :
        /\ Tool(n, 0) \in Elems(tools) <=> Usable(n)
        /\ \A i \in 1..(MaxTools + 1) :
               Tool(n, i) \in Elems(tools)
                   <=> /\ Contains(loaded, n)
                       /\ Usable(n)
                       /\ i <= Len(Lookup(skills, n).tools)

\* C2: in every state reached by register, unregister and reducer steps, the
\* tool list the filter computes is exact, for the session's loaded names and
\* for the list put on a request in flight.
C2_FilterExact ==
    /\ ExactFor(get_tools_for_skills(skills, metadata_cache, skills_loaded).tools,
                skills_loaded)
    /\ request.active => ExactFor(request.tools, request.seen)

\* A is loaded and usable, B is registered but not loaded, C is loaded but not
\* registered, and a request carrying that state has been filtered.
C2_Witness ==
    /\ request.active /\ request.seen = skills_loaded
    /\ Contains(skills_loaded, "A") /\ Usable("A")
    /\ ~Contains(skills_loaded, "B") /\ Usable("B")
    /\ Contains(skills_loaded, "C")
    /\ Tool("A", 1) \in Elems(request.tools)
    /\ Tool("B", 1) \notin Elems(request.tools)

RECURSIVE Flatten(_)
\* The concatenation of a sequence of sequences.
Flatten(ss) == IF ss = <<>> THEN <<>> ELSE Head(ss) \o Flatten(Tail(ss))

\* The loaders of the enabled skills, in the order the registry holds them.
EnabledLoaders ==
    LET on == SelectSeq(skills, LAMBDA e : e.val.metadata.enabled)
    IN  [i \in 1..Len(on) |-> on[i].val.loader]

\* The tools of the usable names of loaded, in the order of loaded.
LoadedTools(loaded) ==
    LET on == SelectSeq(loaded, Usable)
    IN  Flatten([i \in 1..Len(on) |-> Lookup(skills, on[i]).tools])

\* C3: the list put on a request is get_all_loader_tools(None) followed by the
\* tools of each loaded name that is registered and enabled, in the order
\* given; with nothing loaded it is get_all_loader_tools(None), and with one
\* usable name loaded it holds each tool of that skill once and every loader.
C3_LoadersThenLoaded ==
    request.active =>
        /\ request.tools = EnabledLoaders \o LoadedTools(request.seen)
        /\ request.seen = <<>> =>
               request.tools = get_all_loader_tools(skills, metadata_cache, NoFilter).tools
        /\ \A n \in Names :
               (request.seen = <<n>> /\ Usable(n)) =>
                   /\ \A i \in 1..Len(Lookup(skills, n).tools) :
                          Count(request.tools, Lookup(skills, n).tools[i]) = 1
                   /\ \A m \in Names : Usable(m) => Count(request.tools, Tool(m, 0)) = 1

\* A request whose state loads B before A, both usable with two tools each,
\* has been filtered.
C3_Witness ==
    /\ request.active
    /\ request.seen = <<"B", "A">>
    /\ Usable("A") /\ Usable("B")
    /\ Keys(skills) = <<"A", "B">>
    /\ Len(request.tools) = 6

\* C4: the filter never fails: whatever the loaded names (unregistered or
\* disabled ones included) and whatever state the request carries, a tool
\* list comes back, no error is raised, the names that are not usable add
\* nothing to it, and a request without state or without a skills_loaded
\* entry gets the loaders alone.
C4_FilterTotal ==
    /\ get_tools_for_skills(skills, metadata_cache, skills_loaded).raised = "none"
    /\ request.active =>
           /\ request.raised = "none"
           /\ \A i \in 1..Len(request.tools) : Usable(request.tools[i][1])
           /\ request.state \in {"none", "no_entry"} =>
                  request.tools = EnabledLoaders

\* A request has been filtered whose state loads an unregistered name and a
\* disabled one.
C4_Witness ==
    /\ request.active
    /\ request.raised = "none"
    /\ \E n \in Elems(request.seen) : ~HasKey(skills, n)
    /\ \E n \in Elems(request.seen) : HasKey(skills, n) /\ ~Usable(n)

\* The first k entries of lst (all of it when it has fewer).
FirstEntries(lst, k) ==
    LET n == IF k < Len(lst) THEN k ELSE Len(lst)
    IN  [i \in 1..n |-> lst[i]]

\* The last k entries of lst (all of it when it has fewer).
LastEntries(lst, k) ==
    LET n == IF k < Len(lst) THEN k ELSE Len(lst)
    IN  [i \in 1..n |-> lst[Len(lst) - n + i]]

\* C5: under Bounded-FIFO(K), for every K >= 0 and every current and incoming
\* list, the reducer's result holds at most K names.
C5_FifoAtMostK ==
    (mode.kind = "fifo" /\ hist # <<>>) => Len(skills_loaded) <= mode.max_skills

\* C6: under Bounded-FIFO(K), the result is the last K entries of current
\* followed by the items of incoming that are not in current; when current is
\* empty it is the first K entries of incoming.
C6_FifoLastK ==
    [][\A new \in Incoming :
          (mode.kind = "fifo" /\ Apply(new)) =>
              skills_loaded' =
                  IF skills_loaded = <<>>
                  THEN FirstEntries(new, mode.max_skills)
                  ELSE LastEntries(skills_loaded \o NotIn(skills_loaded, new),
                                   mode.max_skills)]_vars

\* The names loaded so far, one per load.
Loaded == [i \in 1..Len(hist) |-> hist[i][1]]

\* C7: under Bounded-FIFO(K), from the empty state, after K+1 pairwise
\* distinct names loaded one per reducer step, the state has length K and
\* does not hold the name loaded first.
C7_FifoEvictsFirst ==
    (/\ mode.kind = "fifo"
     /\ Len(hist) = mode.max_skills + 1
     /\ NoDuplicates(Loaded)) =>
        /\ Len(skills_loaded) = mode.max_skills
        /\ ~Contains(skills_loaded, Loaded[1])

\* K+1 distinct names have been loaded under Bounded-FIFO(K), K at least 2.
C7_Witness ==
    /\ mode.kind = "fifo"
    /\ mode.max_skills >= 2
    /\ Len(hist) = mode.max_skills + 1
    /\ NoDuplicates(Loaded)

RECURSIVE StateAfter(_)
\* The state after the first i loads of hist.
StateAfter(i) ==
    IF i = 0 THEN <<>> ELSE Reduce(mode, StateAfter(i - 1), hist[i])

\* C8: under Bounded-FIFO(K), a step whose incoming names are all already
\* loaded leaves every name at its position, and a load of a new name into a
\* full state drops the entry appended earliest and appends the new name,
\* whether or not the dropped name was reloaded before.
C8_FifoAppendOrder ==
    [][/\ mode.kind = "fifo" =>
              \A new \in Incoming :
                  Elems(new) \subseteq Elems(skills_loaded) =>
                      skill_list_fifo(mode.max_skills, skills_loaded, new) = skills_loaded
       /\ \A name \in LoadNames :
          (mode.kind = "fifo" /\ Load(name)) =>
              /\ Contains(skills_loaded, name) => skills_loaded' = skills_loaded
              /\ (/\ ~Contains(skills_loaded, name)
                  /\ skills_loaded # <<>>
                  /\ Len(skills_loaded) = mode.max_skills) =>
                     skills_loaded' = Append(Tail(skills_loaded), name)]_vars

\* The state was full, its oldest name was loaded again, and the next load, of
\* a new name, evicted that name.
C8_Witness ==
    /\ mode.kind = "fifo"
    /\ Len(hist) >= 3
    /\ LET n == Len(hist)
           before == StateAfter(n - 2)
       IN  /\ before # <<>>
           /\ Len(before) = mode.max_skills
           /\ before[1] = Loaded[n - 1]
           /\ StateAfter(n - 1) = before
           /\ ~Contains(before, Loaded[n])
           /\ ~Contains(skills_loaded, Loaded[n - 1])

\* Accumulate agrees, on every current and incoming list, with: current
\* followed by the items of incoming that are not in current.
AccumulateAppendsNew ==
    \A current \in SeqsUpTo(Names, MaxCur), new \in Incoming :
        skill_list_accumulator(current, new)
            = current \o SelectSeq(new, LAMBDA s : s \notin Elems(current))

\* The names of Loaded in first-seen order: each at its first load only.
FirstSeen ==
    LET firsts == {i \in 1..Len(hist) : \A j \in 1..(i - 1) : Loaded[j] # Loaded[i]}
        nth[k \in 1..Cardinality(firsts)] ==
            CHOOSE i \in firsts : Cardinality({j \in firsts : j < i}) = k - 1
    IN  [k \in 1..Cardinality(firsts) |-> Loaded[nth[k]]]

\* C9: under Accumulate the result is current followed by the items of
\* incoming not already in current; N loads of N distinct names from the
\* empty state give the N names in load order, and a load of a name already
\* present does not grow the state.
C9_AccumulateFirstSeen ==
    /\ AccumulateAppendsNew
    /\ mode.kind = "accumulate" => skills_loaded = FirstSeen

\* Under Accumulate three distinct names were loaded and then one of them
\* again.
C9_Witness ==
    /\ mode.kind = "accumulate"
    /\ Len(hist) = 4
    /\ NoDuplicates(SubSeq(Loaded, 1, 3))
    /\ Contains(SubSeq(Loaded, 1, 3), Loaded[4])
    /\ Len(skills_loaded) = 3

\* lst starts with the entries of pre.
IsPrefix(pre, lst) == Len(pre) <= Len(lst) /\ SubSeq(lst, 1, Len(pre)) = pre

\* C10: under Accumulate the state before any step is a prefix of the state
\* after it, whatever the incoming list (the empty one included): a loaded
\* name stays loaded.
C10_AccumulateMonotone ==
    [][mode.kind = "accumulate" => IsPrefix(skills_loaded, skills_loaded')]_vars

\* Under Accumulate the state has grown past what one step can load.
C10_Witness ==
    /\ mode.kind = "accumulate"
    /\ Len(skills_loaded) > MaxIn

\* Replace agrees, on every current and incoming list, with: incoming.
ReplaceReturnsIncoming ==
    \A current \in SeqsUpTo(Names, MaxCur), new \in Incoming :
        skill_list_reducer(current, new) = new

\* C11: under Replace the state after any reducer step is exactly that step's
\* incoming list, whatever the state was before; a name loaded earlier and not
\* in the incoming list is no longer loaded.
C11_ReplaceIsIncoming ==
    /\ ReplaceReturnsIncoming
    /\ (mode.kind = "replace" /\ hist # <<>>) =>
           /\ skills_loaded = hist[Len(hist)]
           /\ \A i \in 1..Len(hist) :
                  Loaded[i] # Loaded[Len(hist)] => ~Contains(skills_loaded, Loaded[i])

\* Under Replace a name was loaded and then another one, which replaced it.
C11_Witness ==
    /\ mode.kind = "replace"
    /\ Len(hist) >= 2
    /\ Loaded[Len(hist) - 1] # Loaded[Len(hist)]
    /\ skills_loaded = <<Loaded[Len(hist)]>>

\* ------------------------------------------------------- registry in use

\* The skills handed to the registry during setup: those of SkillUniverse,
\* the skill of the test suite (no tool, no description), and skills with
\* tags, a visibility and a longer description.
RegistryUniverse ==
    SkillUniverse
    \cup {Skill(n, "", 0, TRUE, TRUE) : n \in RegNames}
    \cup {SkillWith(n, "ab", 1, TRUE, TRUE, t, v) :
              n \in RegNames, t \in {<<"x">>, <<"y">>, <<"y", "x">>},
              v \in {"public", "internal"}}

\* The arguments search is called with: queries that match a name, a
\* description, both or nothing, in either case; tag lists that hit, miss and
\* half hit; every visibility, and none.
Queries == {"", "a", "b", "AB", "D", "x"}

TagLists == {<<>>, <<"x">>, <<"y">>, <<"z">>, <<"x", "z">>}

Visibilities == {Unset, "public", "internal", "private"}

\* The setup phase: the registry is filled and queried, one call at a time.
NextRegistry ==
    \/ \E skill \in RegistryUniverse : register(skill) /\ UNCHANGED hist
    \/ \E name \in Names : unregister(name)
    \/ \E name \in Names : Get(name)
    \/ \E filter_fn \in Filters \cup {NoFilter} : ListSkills(filter_fn)

\* A fresh registry whose logger is set up at the default level
\* (Settings.log_level = "INFO"); no conversation is going on, its state
\* keeps the default (replacing) reducer.
InitRegistry ==
    /\ skills = <<>>
    /\ metadata_cache = <<>>
    /\ raised = "none"
    /\ returned = Return("NoneType", None)
    /\ mode = [kind |-> "replace", max_skills |-> 0]
    /\ skills_loaded = <<>>
    /\ hist = <<>>
    /\ request = NoRequest
    /\ logger = setup_logger("INFO")
    /\ middleware = SkillMiddleware(FALSE, NoToolFilter)
    /\ threads = NoThreads
    /\ server = NoServer

SpecRegistry == InitRegistry /\ [][NextRegistry]_vars

\* The skill lacks a name, a description, a tool or a loader.
Malformed(skill) ==
    \/ skill.metadata.name = ""
    \/ skill.metadata.description = ""
    \/ Len(skill.tools) = 0
    \/ skill.loader = None

C13_RegisterAcceptsNoTools ==
    [][\A skill \in RegistryUniverse :
          (/\ register(skill)
           /\ skill.metadata.name # ""
           /\ skill.loader # None
           /\ skill.tools = <<>>
           /\ ~HasKey(skills, skill.metadata.name)) =>
              /\ raised' = "none"
              /\ HasKey(skills', skill.metadata.name)
              /\ Len(skills') = Len(skills) + 1
              /\ Contains(list_skills(skills', metadata_cache', NoFilter),
                          skill.metadata.name)
              /\ get(skills', skill.metadata.name).val = skill]_vars

C15_GetByName ==
    [][\A name \in Names :
          Get(name) =>
              /\ skills' = skills
              /\ metadata_cache' = metadata_cache
              /\ IF name \in Elems(Keys(skills))
                 THEN /\ raised' = "none"
                      /\ returned'.type = "BaseSkill"
                      /\ returned'.skill[1].metadata.name = name
                 ELSE raised' = "SkillNotFoundError"]_vars

\* get("B") has just returned B's bundle from a registry that holds A and B.
C15_Witness ==
    /\ Keys(skills) = <<"A", "B">>
    /\ raised = "none"
    /\ returned.type = "BaseSkill"
    /\ returned.skill[1].metadata.name = "B"

\* C16: unregister(name) never raises. When name is registered, exactly its
\* entry goes: get(name) then fails with SkillNotFoundError, and every other
\* name keeps its bundle, its descriptor and its place. When name is not
\* registered nothing changes. So a second unregister(name) changes nothing.
C16_UnregisterExact ==
    [][\A name \in Names :
          unregister(name) =>
              /\ raised' = "none"
              /\ get(skills', name).raised = "SkillNotFoundError"
              /\ ~HasKey(metadata_cache', name)
              /\ \A other \in Names \ {name} :
                     /\ get(skills', other) = get(skills, other)
                     /\ HasKey(metadata_cache', other) = HasKey(metadata_cache, other)
                     /\ HasKey(metadata_cache, other) =>
                            Lookup(metadata_cache', other) = Lookup(metadata_cache, other)
              /\ IsSubsequence(Keys(skills'), Keys(skills))
              /\ IsSubsequence(Keys(metadata_cache'), Keys(metadata_cache))
              /\ Len(skills') = Len(skills) - (IF HasKey(skills, name) THEN 1 ELSE 0)
              /\ ~HasKey(skills, name) => (skills' = skills /\ metadata_cache' = metadata_cache)
              /\ DictDel(skills', name) = skills'
              /\ DictDel(metadata_cache', name) = metadata_cache']_vars

\* unregister has just removed a bundle from a registry that also held B:
\* B alone is left.
C16_Witness ==
    /\ Keys(skills) = <<"B">>
    /\ Len(logger.records) = 1
    /\ logger.records[1].msg = "Unregistered skill"

\* C17: list_skills(None) returns every registered name exactly once, and
\* list_skills(predicate) returns exactly those names of list_skills(None)
\* whose descriptor satisfies the predicate.
C17_ListSkillsFilters ==
    [][\A filter_fn \in Filters \cup {NoFilter} :
          ListSkills(filter_fn) =>
              LET all == list_skills(skills, metadata_cache, NoFilter)
                  got == returned'.names
              IN  /\ raised' = "none"
                  /\ returned'.type = "List[str]"
                  /\ NoDuplicates(all)
                  /\ Elems(all) = {n \in Names : get(skills, n).raised = "none"}
                  /\ NoDuplicates(got)
                  /\ Elems(got) \subseteq Elems(all)
                  /\ IF filter_fn = NoFilter
                     THEN Elems(got) = Elems(all)
                     ELSE Elems(got) =
                              {n \in Elems(all) :
                                   Accepts(filter_fn, get(skills, n).val.metadata)}]_vars

\* list_skills(tagged "x") has just returned B alone from a registry that
\* holds A and B.
C17_Witness ==
    /\ Keys(skills) = <<"A", "B">>
    /\ returned.type = "List[str]"
    /\ returned.names = <<"B">>
    /\ Contains(Lookup(metadata_cache, "B").tags, "x")
    /\ Lookup(metadata_cache, "A").enabled
    /\ Lookup(metadata_cache, "A").visibility = "public"

\* The bundles searched: per name, one plain bundle (description "d", no
\* tags, public) and the tagged ones (description "ab").
SearchUniverse ==
    {Skill(n, "d", 1, TRUE, TRUE) : n \in RegNames}
    \cup {SkillWith(n, "ab", 1, TRUE, TRUE, t, v) :
              n \in RegNames, t \in {<<"x">>, <<"y">>, <<"y", "x">>},
              v \in {"public", "internal"}}

\* A registry that is filled, emptied and searched, one call at a time.
NextSearch ==
    \/ \E skill \in SearchUniverse : register(skill) /\ UNCHANGED hist
    \/ \E name \in RegNames : unregister(name)
    \/ \E query \in Queries, tags \in TagLists, visibility \in Visibilities :
           Search(query, tags, visibility)

SpecSearch == InitRegistry /\ [][NextSearch]_vars

\* Two characters that are the same letter, whatever their case.
SameLetter(a, b) ==
    \/ a = b
    \/ {a, b} \in {{"a", "A"}, {"b", "B"}, {"c", "C"}, {"d", "D"}}

\* q occurs in s at some position, letter by letter, case ignored.
OccursIgnoringCase(q, s) ==
    LET qc == Chars(q)
        sc == Chars(s)
    IN  \E i \in 0..(Len(sc) - Len(qc)) :
            \A j \in 1..Len(qc) : SameLetter(qc[j], sc[i + j])

\* The condition under which search is to return a descriptor.
Wanted(meta, query, tags, visibility) ==
    /\ \/ query = ""
       \/ OccursIgnoringCase(query, meta.name)
       \/ OccursIgnoringCase(query, meta.description)
    /\ \/ tags = <<>>
       \/ Elems(tags) \cap Elems(meta.tags) # {}
    /\ \/ visibility = Unset
       \/ meta.visibility = visibility

\* The descriptors of the registered bundles.
Descriptors == {Lookup(skills, n).metadata : n \in Elems(Keys(skills))}

\* C18: search(query, tags, visibility) returns exactly the registered
\* descriptors, each once, for which the query is empty or occurs, case
\* ignored, in the name or the description, and tags is empty or shares a tag
\* with the descriptor, and visibility is unset or equal to the descriptor's.
\* In particular search("", ["x"], unset) returns exactly the descriptors
\* tagged "x".
\* (Stated of the registry of every reachable state and every argument
\* triple; what a search call has just returned is one of these results.)
C18_SearchExact ==
    /\ \A query \in Queries, tags \in TagLists, visibility \in Visibilities :
           LET got == search(metadata_cache, query, tags, visibility)
           IN  /\ NoDuplicates(got)
               /\ Elems(got) =
                      {meta \in Descriptors : Wanted(meta, query, tags, visibility)}
               /\ (query = "" /\ tags = <<"x">> /\ visibility = Unset) =>
                      Elems(got) = {meta \in Descriptors : "x" \in Elems(meta.tags)}
    /\ returned.type = "List[SkillMetadata]" =>
           /\ raised = "none"
           /\ \E query \in Queries, tags \in TagLists, visibility \in Visibilities :
                  /\ returned.metas = search(metadata_cache, query, tags, visibility)
                  /\ Elems(returned.metas) =
                         {meta \in Descriptors : Wanted(meta, query, tags, visibility)}

\* A search has just returned A's descriptor alone, from a registry that
\* holds A (tagged y and x, internal) and B (untagged, public).
C18_Witness ==
    /\ Keys(skills) = <<"A", "B">>
    /\ Lookup(metadata_cache, "A").tags = <<"y", "x">>
    /\ Lookup(metadata_cache, "A").visibility = "internal"
    /\ Lookup(metadata_cache, "B").tags = <<>>
    /\ returned.type = "List[SkillMetadata]"
    /\ returned.metas = <<Lookup(metadata_cache, "A")>>

\* ------------------------------------------------------- discovery in use

\* What create_skill returns in the subdirectories scanned: two versions of
\* A, one B, and a B without tools, which validation rejects.
DiscoverSkills ==
    {Skill("A", "d", 1, TRUE, TRUE), Skill("A", "d", 2, TRUE, TRUE),
     Skill("B", "d", 1, TRUE, TRUE), Skill("B", "d", 0, TRUE, TRUE)}

\* What iterdir yields: a plain file, a subdirectory without entry point, a
\* subdirectory whose entry point fails to load, one that gives a skill.
DirEntries ==
    {[kind |-> "file", module |-> "absent", skill |-> <<>>],
     [kind |-> "dir", module |-> "absent", skill |-> <<>>]}
    \cup {[kind |-> "dir", module |-> m, skill |-> <<>>] :
              m \in {"no_spec", "raises", "no_create_skill", "not_a_skill"}}
    \cup {[kind |-> "dir", module |-> "skill", skill |-> <<s>>] : s \in DiscoverSkills}

\* The directories scanned: a path that does not exist, or up to MaxDir
\* entries in the order iterdir yields them.
SkillsDirs ==
    {[exists |-> FALSE, entries |-> <<>>]}
    \cup {[exists |-> TRUE, entries |-> es] : es \in SeqsUpTo(DirEntries, MaxDir)}

\* Start-up: directories are scanned into the registry; bundles may also be
\* registered by hand and taken out again in between.
NextDiscover ==
    \/ \E skills_dir \in SkillsDirs : Discover(skills_dir)
    \/ \E skill \in DiscoverSkills : register(skill) /\ UNCHANGED hist
    \/ \E name \in RegNames : unregister(name)

SpecDiscover == InitRegistry /\ [][NextDiscover]_vars

\* The entry is a subdirectory whose entry point gives a well-formed skill.
Loadable(entry) ==
    /\ entry.kind = "dir"
    /\ entry.module = "skill"
    /\ ~Malformed(entry.skill[1])

\* The positions of the directory that load and register.
LoadablePositions(skills_dir) ==
    {i \in 1..Len(skills_dir.entries) : Loadable(skills_dir.entries[i])}

\* The last position of the directory that loads a skill of this name, 0 if
\* there is none.
LastLoadable(skills_dir, name) ==
    LET at == {i \in LoadablePositions(skills_dir) :
                   skills_dir.entries[i].skill[1].metadata.name = name}
    IN  IF at = {} THEN 0 ELSE CHOOSE i \in at : \A j \in at : j <= i

\* What discover_and_load(skills_dir) is to do on the registry of the state.
DiscoverIsolates(skills_dir, done) ==
    IF ~skills_dir.exists
    THEN /\ done.loaded_count = 0
         /\ done.skills = skills
         /\ done.metadata_cache = metadata_cache
    ELSE /\ done.loaded_count = Cardinality(LoadablePositions(skills_dir))
         /\ NoDuplicates(Keys(done.skills))
         /\ Keys(done.metadata_cache) = Keys(done.skills)
         /\ \A name \in Names :
                LET last == LastLoadable(skills_dir, name)
                IN  IF last = 0
                    THEN get(done.skills, name) = get(skills, name)
                    ELSE get(done.skills, name) =
                             [raised |-> "none",
                              val |-> skills_dir.entries[last].skill[1]]
         /\ (skills = <<>> /\ done.loaded_count = 1) => Len(done.skills) = 1

\* C19: discover_and_load raises nothing. A subdirectory that fails to load
\* or to validate is skipped and the scan goes on: every subdirectory whose
\* entry point gives a well-formed skill is registered, the count returned is
\* the number of those subdirectories, and every other name keeps what it
\* had. One valid and one malformed subdirectory give one bundle and count 1.
\* A root directory that does not exist gives 0 and an unchanged registry.
\* (Stated of the registry of every reachable state and every directory;
\* what a discover_and_load call has just returned is one of these counts.)
C19_DiscoverIsolates ==
    /\ \A skills_dir \in SkillsDirs :
           DiscoverIsolates(skills_dir,
                            discover_and_load(skills, metadata_cache, skills_dir))
    /\ returned.type = "int" =>
           /\ raised = "none"
           /\ returned.count \in 0..MaxDir

\* discover_and_load has just scanned a directory holding a malformed
\* subdirectory and a valid one: it logged the failure, registered A alone
\* and returned 1.
C19_Witness ==
    /\ returned.type = "int"
    /\ returned.count = 1
    /\ Keys(skills) = <<"A">>
    /\ Len(logger.records) = 3
    /\ logger.records[1] = [level |-> "ERROR", msg |-> "Failed to load skill"]
    /\ logger.records[2] = [level |-> "INFO", msg |-> "Registered skill"]

\* ---------------------------------------------------------- a conversation

\* The two bundles of the example: A with actions a1, a2 and loader loadA,
\* B with action b1 and loader loadB.
TraceSkills == {Skill("A", "d", 2, TRUE, TRUE), Skill("B", "d", 1, TRUE, TRUE)}

\* The two bundles are registered at start-up, the model loads A or B, one
\* at a time, and each model call is filtered.
NextTrace ==
    \/ \E skill \in TraceSkills : register(skill) /\ UNCHANGED hist
    \/ \E name \in RegNames : Load(name)
    \/ \E ep \in EntryPoints : FilterCall(ep)
    \/ HandlerReturn

SpecTrace == Init /\ [][NextTrace]_vars

\* Both bundles of the example are registered.
BothRegistered == Elems([i \in 1..Len(skills) |-> skills[i].val]) = TraceSkills

\* The visible set for the state as it is: what the filter computes from the
\* registry and skills_loaded.
Visible == Elems(get_tools_for_skills(skills, metadata_cache, skills_loaded).tools)

\* C20: with A (a1, a2, loadA) and B (b1, loadB) registered, the empty state
\* shows {loadA, loadB}; a Replace step with incoming [A] gives state [A] and
\* shows {loadA, loadB, a1, a2}; under Bounded-FIFO(1), loading B from state
\* [A] gives state [B] and shows {loadA, loadB, b1}, a1 and a2 gone. A model
\* call filtered in any of these states is handed exactly that set.
C20_EndToEndTrace ==
    BothRegistered =>
        /\ skills_loaded = <<>> => Visible = {Tool("A", 0), Tool("B", 0)}
        /\ (mode.kind = "replace" /\ hist = << <<"A">> >>) =>
               /\ skills_loaded = <<"A">>
               /\ Visible = {Tool("A", 0), Tool("B", 0), Tool("A", 1), Tool("A", 2)}
        /\ (mode = [kind |-> "fifo", max_skills |-> 1]
            /\ hist = << <<"A">>, <<"B">> >>) =>
               /\ skills_loaded = <<"B">>
               /\ Visible = {Tool("A", 0), Tool("B", 0), Tool("B", 1)}
               /\ Tool("A", 1) \notin Visible
               /\ Tool("A", 2) \notin Visible
        /\ (request.active /\ request.state \in {"dict", "object"}) =>
               /\ request.raised = "none"
               /\ Elems(request.tools) = Visible

\* Under Bounded-FIFO(1), with A and B registered, A was loaded, then B, and
\* the model call being filtered sees loadA, loadB and b1.
C20_Witness ==
    /\ BothRegistered
    /\ mode = [kind |-> "fifo", max_skills |-> 1]
    /\ hist = << <<"A">>, <<"B">> >>
    /\ skills_loaded = <<"B">>
    /\ request.active
    /\ request.state = "dict"
    /\ Elems(request.tools) = {Tool("A", 0), Tool("B", 0), Tool("B", 1)}

\* ------------------------------------------------------ middleware in use

\* The bundles the middleware is run over: A with two actions, B with one, in
\* an enabled and a disabled version.
MiddlewareSkills == TraceSkills \cup {Skill("B", "d", 1, TRUE, FALSE)}

\* A middleware constructed with any verbose flag and any filter_fn, over a
\* fresh registry, logging at the default level; the session keeps the
\* default (replacing) reducer.
InitMiddleware ==
    /\ skills = <<>>
    /\ metadata_cache = <<>>
    /\ raised = "none"
    /\ returned = Return("NoneType", None)
    /\ mode = [kind |-> "replace", max_skills |-> 0]
    /\ skills_loaded = <<>>
    /\ hist = <<>>
    /\ request = NoRequest
    /\ logger = setup_logger("INFO")
    /\ middleware \in {SkillMiddleware(verbose, filter_fn) :
                           verbose \in BOOLEAN,
                           filter_fn \in ToolFilters \cup {NoToolFilter}}
    /\ threads = NoThreads
    /\ server = NoServer

\* Bundles are registered, the state is updated and model calls are filtered
\* through every entry point, one at a time.
NextMiddleware ==
    \/ \E skill \in MiddlewareSkills : register(skill) /\ UNCHANGED hist
    \/ \E new \in Incoming : ApplyReducer(new) /\ UNCHANGED hist
    \/ \E ep \in EntryPoints : FilterCall(ep)
    \/ HandlerReturn

SpecMiddleware == InitMiddleware /\ [][NextMiddleware]_vars

\* C21: the tool list wrap_model_call and awrap_model_call hand to the model
\* is get_tools_for_skills of the registry and the loaded names read, and
\* nothing else: the same on the synchronous and the asynchronous path, and
\* for every setting of verbose.
C21_FilterDependsOnInputsOnly ==
    [][\A ep \in EntryPoints :
          (/\ ep.entry \in {"wrap_model_call", "awrap_model_call"}
           /\ request'.active
           /\ FilterCall(ep)) =>
              /\ request'.seen = ReadSkillsLoaded(ep.state, skills_loaded)
              /\ request'.raised = "none"
              /\ request'.tools =
                     get_tools_for_skills(skills, metadata_cache, request'.seen).tools]_vars

\* A verbose middleware has just filtered a model call on the asynchronous
\* path, with A loaded: the request carries both loaders and A's actions.
C21_Witness ==
    /\ request.active
    /\ middleware.verbose
    /\ Len(logger.records) = 2
    /\ logger.records[1].msg = "[SkillMiddleware] (async) Skills loaded"
    /\ skills_loaded = <<"A">>
    /\ request.tools = <<Tool("A", 0), Tool("B", 0), Tool("A", 1), Tool("A", 2)>>

\* C22: a filter computation, through any entry point, leaves the loaded
\* names, the reducer and the registry as they are and only puts a tool list
\* on the outbound request; whenever the loaded names change, a reducer step
\* did it.
C22_FilterFrame ==
    [][/\ \A ep \in EntryPoints :
              (request'.active /\ FilterCall(ep)) =>
                  /\ skills_loaded' = skills_loaded
                  /\ mode' = mode
                  /\ skills' = skills
                  /\ metadata_cache' = metadata_cache
                  /\ request'.active
                  /\ [request' EXCEPT !.tools = <<>>] =
                         [active |-> TRUE, state |-> ep.state,
                          seen |-> ReadSkillsLoaded(ep.state, skills_loaded),
                          raised |-> "none", tools |-> <<>>]
       /\ skills_loaded' # skills_loaded =>
              \E new \in Incoming : ApplyReducer(new)]_vars

\* A model call has just been filtered from a state object with A and B
\* loaded: the request carries their tools, the state still holds A and B.
C22_Witness ==
    /\ request.active
    /\ request.state = "object"
    /\ skills_loaded = <<"A", "B">>
    /\ Len(skills) = 2
    /\ Len(request.tools) > 2

\* The entry points of the two middlewares, which take a filter_fn.
MiddlewareEntries == {"wrap_model_call", "awrap_model_call", "get_tools_for_state"}

\* C25: with a filter_fn configured, the tool list handed to the model is
\* get_tools_for_skills(loaded names) restricted to the tools the predicate
\* accepts, in the same order, on wrap_model_call, awrap_model_call and
\* get_tools_for_state alike.
C25_SecondaryPredicate ==
    [][\A ep \in EntryPoints :
          (/\ ep.entry \in MiddlewareEntries
           /\ middleware.filter_fn # NoToolFilter
           /\ request'.active
           /\ FilterCall(ep)) =>
              request'.tools =
                  SelectSeq(get_tools_for_skills(skills, metadata_cache, request'.seen).tools,
                            LAMBDA t : ToolAccepts(middleware.filter_fn, t))]_vars
\* -------------------------------------------------- order of registration

\* The bundles registered in a followed order: two versions of A, and B
\* enabled and disabled.
OrderSkills ==
    MiddlewareSkills \cup {Skill("A", "d", 1, TRUE, TRUE)}

\* A registration that hist records.
RegisterNext(skill) ==
    /\ Len(hist) < MaxRegs
    /\ register(skill)
    /\ hist' = Append(hist, <<skill.metadata.name>>)

\* Bundles are registered, re-registered and unregistered, one call at a
\* time; hist follows the registrations.
NextOrder ==
    \/ \E skill \in OrderSkills : RegisterNext(skill)
    \/ \E name \in RegNames : unregister(name)

SpecOrder == InitRegistry /\ [][NextOrder]_vars

\* The positions of hist at which a bundle the registry still holds was
\* registered: the last registration of a held name.
HeldAt ==
    {i \in 1..Len(hist) :
        /\ HasKey(skills, hist[i][1])
        /\ \A j \in (i + 1)..Len(hist) : hist[j] # hist[i]}

\* The held names in the order their bundles were registered.
RECURSIVE InRegistrationOrder(_)
InRegistrationOrder(i) ==
    IF i > Len(hist) THEN <<>>
    ELSE (IF i \in HeldAt THEN hist[i] ELSE <<>>) \o InRegistrationOrder(i + 1)

\* C24: get_all_loader_tools returns the loaders of the enabled bundles in
\* the order in which the bundles the registry holds were registered, also
\* when a name was registered again after other names.
C24_LoadersInRegistrationOrder ==
    LET names == SelectSeq(InRegistrationOrder(1),
                           LAMBDA n : Lookup(skills, n).metadata.enabled)
    IN  get_all_loader_tools(skills, metadata_cache, NoFilter) =
            [raised |-> "none",
             tools |-> [i \in 1..Len(names) |-> Lookup(skills, names[i]).loader]]

\* C27: after any calls of register, unregister and discover_and_load, made
\* one at a time, the two maps hold the same names, and len(registry), `in`,
\* list_skills(None) and search agree with them on which names are
\* registered.
C27_MapsAgree ==
    LET names == Elems(Keys(skills))
        found == search(metadata_cache, "", <<>>, Unset)
    IN  /\ Elems(Keys(metadata_cache)) = names
        /\ Len(metadata_cache) = Len(skills)
        /\ __len__(skills) = Cardinality(names)
        /\ \A n \in Names : __contains__(skills, n) <=> n \in names
        /\ Elems(list_skills(skills, metadata_cache, NoFilter)) = names
        /\ Len(list_skills(skills, metadata_cache, NoFilter)) = Cardinality(names)
        /\ {found[i].name : i \in 1..Len(found)} = names
        /\ Len(found) = Cardinality(names)

\* A and B were put into the registry and A then unregistered: both maps,
\* len and search are left with B.
C27_Witness ==
    /\ Keys(skills) = <<"B">>
    /\ Keys(metadata_cache) = <<"B">>
    /\ Len(search(metadata_cache, "", <<>>, Unset)) = 1
    /\ Len(logger.records) = 1
    /\ logger.records[1].msg = "Unregistered skill"

\* ------------------------------------------------- a writer and a reader

\* Two threads share one registry, which takes no lock: a writer in register
\* or unregister and a reader in get or get_all_loader_tools, each advancing
\* one statement at a time, in any interleaving.

\* register(skill), after validate: the writer is about to assign
\* self._skills[name].
BeginRegister(skill) ==
    /\ threads.writer.pc = "idle"
    /\ validate(skill) = "ok"
    /\ threads' = [threads EXCEPT !.writer =
                       [Idle EXCEPT !.pc = "set_skills", !.op = "register",
                                    !.name = skill.metadata.name, !.skill = <<skill>>]]
    /\ UNCHANGED <<registry, raised, returned, mode, middleware, skills_loaded, hist,
                   request, logger, server>>

\* self._skills[name] = skill
RegisterSetSkills ==
    /\ threads.writer.pc = "set_skills"
    /\ skills' = DictSet(skills, threads.writer.name, threads.writer.skill[1])
    /\ threads' = [threads EXCEPT !.writer.pc = "set_cache"]
    /\ UNCHANGED <<metadata_cache, raised, returned, mode, middleware, skills_loaded,
                   hist, request, logger, server>>

\* self._metadata_cache[name] = skill.metadata, and register returns
RegisterSetCache ==
    /\ threads.writer.pc = "set_cache"
    /\ metadata_cache' = DictSet(metadata_cache, threads.writer.name,
                                 threads.writer.skill[1].metadata)
    /\ threads' = [threads EXCEPT !.writer = Idle]
    /\ UNCHANGED <<skills, raised, returned, mode, middleware, skills_loaded, hist,
                   request, logger, server>>

\* unregister(skill_name), after `if skill_name in self._skills` held
BeginUnregister(skill_name) ==
    /\ threads.writer.pc = "idle"
    /\ HasKey(skills, skill_name)
    /\ threads' = [threads EXCEPT !.writer =
                       [Idle EXCEPT !.pc = "del_skills", !.op = "unregister",
                                    !.name = skill_name]]
    /\ UNCHANGED <<registry, raised, returned, mode, middleware, skills_loaded, hist,
                   request, logger, server>>

\* del self._skills[skill_name]
UnregisterDelSkills ==
    /\ threads.writer.pc = "del_skills"
    /\ skills' = DictDel(skills, threads.writer.name)
    /\ threads' = [threads EXCEPT !.writer.pc = "del_cache"]
    /\ UNCHANGED <<metadata_cache, raised, returned, mode, middleware, skills_loaded,
                   hist, request, logger, server>>

\* del self._metadata_cache[skill_name], and unregister returns
UnregisterDelCache ==
    /\ threads.writer.pc = "del_cache"
    /\ metadata_cache' = DictDel(metadata_cache, threads.writer.name)
    /\ threads' = [threads EXCEPT !.writer = Idle]
    /\ UNCHANGED <<skills, raised, returned, mode, middleware, skills_loaded, hist,
                   request, logger, server>>

\* get(skill_name), its test `skill_name not in self._skills`: the reader
\* raises SkillNotFoundError, or goes on to the subscript.
BeginGet(skill_name) ==
    /\ threads.reader.pc = "idle"
    /\ threads' = [threads EXCEPT !.reader =
                       IF HasKey(skills, skill_name)
                       THEN [Idle EXCEPT !.pc = "subscript", !.op = "get",
                                         !.name = skill_name]
                       ELSE [Idle EXCEPT !.op = "get", !.name = skill_name,
                                         !.raised = "SkillNotFoundError"]]
    /\ UNCHANGED <<registry, raised, returned, mode, middleware, skills_loaded, hist,
                   request, logger, server>>

\* return self._skills[skill_name]
GetSubscript ==
    /\ threads.reader.pc = "subscript"
    /\ threads' = [threads EXCEPT !.reader =
                       [@ EXCEPT !.pc = "idle",
                                 !.raised = Subscript(skills, threads.reader.name).raised]]
    /\ UNCHANGED <<registry, raised, returned, mode, middleware, skills_loaded, hist,
                   request, logger, server>>

\* get_all_loader_tools(filter_fn), its call of list_skills: the reader now
\* holds the list of names.
BeginLoaderTools(filter_fn) ==
    /\ threads.reader.pc = "idle"
    /\ threads' = [threads EXCEPT !.reader =
                       [Idle EXCEPT !.pc = "loop", !.op = "get_all_loader_tools",
                                    !.names = list_skills(skills, metadata_cache, filter_fn)]]
    /\ UNCHANGED <<registry, raised, returned, mode, middleware, skills_loaded, hist,
                   request, logger, server>>

\* for name in skill_names: skill = self._skills[name] ...
LoaderToolsLoop ==
    /\ threads.reader.pc = "loop"
    /\ threads' = [threads EXCEPT !.reader =
                       [@ EXCEPT !.pc = "idle",
                                 !.raised = LoaderLoop(skills, threads.reader.names, 1).raised]]
    /\ UNCHANGED <<registry, raised, returned, mode, middleware, skills_loaded, hist,
                   request, logger, server>>

NextThreads ==
    \/ \E skill \in MiddlewareSkills : BeginRegister(skill)
    \/ RegisterSetSkills
    \/ RegisterSetCache
    \/ \E name \in RegNames : BeginUnregister(name)
    \/ UnregisterDelSkills
    \/ UnregisterDelCache
    \/ \E name \in RegNames : BeginGet(name)
    \/ GetSubscript
    \/ \E filter_fn \in {NoFilter, "enabled"} : BeginLoaderTools(filter_fn)
    \/ LoaderToolsLoop

SpecThreads == InitRegistry /\ [][NextThreads]_vars

\* C23: while register or unregister runs next to a reader, the reader never
\* finds a name in one of the two maps and not in the other, and never fails
\* because of the update: its subscripts of self._skills raise no KeyError.
C23_ReadersSeeWholeUpdates ==
    /\ Elems(Keys(skills)) = Elems(Keys(metadata_cache))
    /\ threads.reader.raised # "KeyError"

\* ------------------------------------------------------------- idempotence

C29_ToolsAtMostOnce ==
    NoDuplicates(get_tools_for_skills(skills, metadata_cache, skills_loaded).tools)

\* ------------------------------------------------------- dashboard server

\* The server runs every websocket connection as a task of one event loop:
\* a task runs alone from one await to the next. A connection handles one
\* action at a time; pc is the await its handler stands at.

Conns == 1..MaxConns

\* A websocket nobody has opened.
Closed == [pc |-> "closed", reply |-> "none"]

\* ConnectionManager.__init__ and the module-level manager: no agent, not
\* processing, no connection, no agent call running in the thread pool.
ServerStart ==
    [agent |-> FALSE, is_processing |-> FALSE, in_flight |-> 0,
     conns |-> [c \in Conns |-> Closed]]

\* The server alone changes.
ServerFrame ==
    UNCHANGED <<skills, metadata_cache, raised, returned, mode, skills_loaded, hist,
                request, logger, middleware, threads>>

\* The connection c moves to pc, having last been sent reply.
Moved(c, pc, reply) == [server.conns EXCEPT ![c] = [pc |-> pc, reply |-> reply]]

\* websocket_endpoint up to its first receive_json: connect and send "init"
Connect(c) ==
    /\ server.conns[c].pc = "closed"
    /\ server' = [server EXCEPT !.conns = Moved(c, "idle", "init")]
    /\ ServerFrame

\* receive_json raises WebSocketDisconnect: manager.disconnect(websocket)
Disconnect(c) ==
    /\ server.conns[c].pc = "idle"
    /\ server' = [server EXCEPT !.conns = Moved(c, "closed", "none")]
    /\ ServerFrame

\* receive_json returns an init_agent action: handle_init_agent runs up to
\* its first await, the "initializing" status.
ReceiveInitAgent(c) ==
    /\ server.conns[c].pc = "idle"
    /\ server' = [server EXCEPT !.conns = Moved(c, "init_agent", "status")]
    /\ ServerFrame

\* handle_init_agent after the status was sent: create_skill_agent succeeds
\* and manager.agent is set, or it raises and the error is sent.
CreateAgent(c) ==
    /\ server.conns[c].pc = "init_agent"
    /\ \/ server' = [server EXCEPT !.agent = TRUE,
                                     !.conns = Moved(c, "broadcast_agent_ready", "status")]
       \/ server' = [server EXCEPT !.conns = Moved(c, "reply_init_error", "status")]
    /\ ServerFrame

\* agent_ready was broadcast, or the error sent; handle_init_agent returns.
InitAgentDone(c) ==
    /\ server.conns[c].pc \in {"broadcast_agent_ready", "reply_init_error"}
    /\ server' = [server EXCEPT
                      !.conns = Moved(c, "idle",
                                      IF server.conns[c].pc = "reply_init_error"
                                      THEN "error: init" ELSE "agent_ready")]
    /\ ServerFrame

\* receive_json returns a get_skill_info or a clear action: the handler
\* runs up to the send of its answer.
ReceiveQuery(c) ==
    /\ server.conns[c].pc = "idle"
    /\ server' = [server EXCEPT !.conns = Moved(c, "reply_query", "none")]
    /\ ServerFrame

\* The answer was sent; the handler returns.
QueryAnswered(c) ==
    /\ server.conns[c].pc = "reply_query"
    /\ server' = [server EXCEPT !.conns = Moved(c, "idle", "answer")]
    /\ ServerFrame

\* A handle_send_message that invokes the agent whatever is_processing says.
ReceiveSendMessage_unguarded(c) ==
    /\ server.conns[c].pc = "idle"
    /\ server' =
           IF ~server.agent
           THEN [server EXCEPT !.conns = Moved(c, "reply_no_agent", "none")]
           ELSE [server EXCEPT !.is_processing = TRUE,
                               !.conns = Moved(c, "broadcast_user_message", "none")]
    /\ ServerFrame

\* receive_json returns a send_message action: handle_send_message runs up
\* to its first await. Without agent, or while is_processing is set, that is
\* the send of an error; otherwise is_processing is set and the user message
\* is about to be broadcast.
ReceiveSendMessage(c) ==
    /\ server.conns[c].pc = "idle"
    /\ server' =
           IF ~server.agent
           THEN [server EXCEPT !.conns = Moved(c, "reply_no_agent", "none")]
           ELSE IF server.is_processing
           THEN [server EXCEPT !.conns = Moved(c, "reply_processing", "none")]
           ELSE [server EXCEPT !.is_processing = TRUE,
                               !.conns = Moved(c, "broadcast_user_message", "none")]
    /\ ServerFrame

\* The error was sent; handle_send_message returns.
ErrorSent(c) ==
    /\ server.conns[c].pc \in {"reply_no_agent", "reply_processing"}
    /\ server' = [server EXCEPT
                      !.conns = Moved(c, "idle",
                                      IF server.conns[c].pc = "reply_no_agent"
                                      THEN "error: no agent" ELSE "error: processing")]
    /\ ServerFrame

\* The user message was broadcast; processing_start is next.
UserMessageBroadcast(c) ==
    /\ server.conns[c].pc = "broadcast_user_message"
    /\ server' = [server EXCEPT !.conns = Moved(c, "broadcast_processing_start",
                                                "user_message")]
    /\ ServerFrame

\* processing_start was broadcast; loop.run_in_executor hands agent.invoke to
\* the thread pool and the handler awaits it.
InvokeAgent(c) ==
    /\ server.conns[c].pc = "broadcast_processing_start"
    /\ server' = [server EXCEPT !.in_flight = @ + 1,
                                !.conns = Moved(c, "run_in_executor", "processing_start")]
    /\ ServerFrame

\* agent.invoke returns: the result is parsed and ai_response is about to be
\* broadcast. Or it raises, or parsing raises: the except clause is about to
\* broadcast the error.
AgentDone(c) ==
    /\ server.conns[c].pc = "run_in_executor"
    /\ \E next \in {"broadcast_ai_response", "broadcast_error"} :
           server' = [server EXCEPT !.in_flight = @ - 1,
                                    !.conns = Moved(c, next, "processing_start")]
    /\ ServerFrame

\* ai_response was broadcast; processing_end is next.
ResponseBroadcast(c) ==
    /\ server.conns[c].pc = "broadcast_ai_response"
    /\ server' = [server EXCEPT !.conns = Moved(c, "broadcast_processing_end",
                                                "ai_response")]
    /\ ServerFrame

\* An except clause that returns without reaching the reset of is_processing.
Finally_not_on_error(c) ==
    /\ server.conns[c].pc \in {"broadcast_processing_end", "broadcast_error"}
    /\ server' =
           IF server.conns[c].pc = "broadcast_error"
           THEN [server EXCEPT !.conns = Moved(c, "idle", "error: failed")]
           ELSE [server EXCEPT !.is_processing = FALSE,
                               !.conns = Moved(c, "idle", "processing_end")]
    /\ ServerFrame

\* The last broadcast of the try block or of the except clause is done; the
\* finally clause resets is_processing and handle_send_message returns.
Finally(c) ==
    /\ server.conns[c].pc \in {"broadcast_processing_end", "broadcast_error"}
    /\ server' = [server EXCEPT
                      !.is_processing = FALSE,
                      !.conns = Moved(c, "idle",
                                      IF server.conns[c].pc = "broadcast_error"
                                      THEN "error: failed" ELSE "processing_end")]
    /\ ServerFrame

\* A handler goes on from the await it stands at.
Resume(c) ==
    \/ CreateAgent(c)
    \/ InitAgentDone(c)
    \/ QueryAnswered(c)
    \/ ErrorSent(c)
    \/ UserMessageBroadcast(c)
    \/ InvokeAgent(c)
    \/ AgentDone(c)
    \/ ResponseBroadcast(c)
    \/ Finally(c)

NextServer ==
    \E c \in Conns :
        \/ Connect(c)
        \/ Disconnect(c)
        \/ ReceiveInitAgent(c)
        \/ ReceiveQuery(c)
        \/ ReceiveSendMessage(c)
        \/ Resume(c)

\* The server started, nothing else of the system in play.
InitServer ==
    /\ skills = <<>>
    /\ metadata_cache = <<>>
    /\ raised = "none"
    /\ returned = Return("NoneType", None)
    /\ mode = [kind |-> "replace", max_skills |-> 0]
    /\ skills_loaded = <<>>
    /\ hist = <<>>
    /\ request = NoRequest
    /\ logger = setup_logger("INFO")
    /\ middleware = SkillMiddleware(TRUE, NoToolFilter)
    /\ threads = NoThreads
    /\ server = ServerStart

SpecServer == InitServer /\ [][NextServer]_vars

\* The event loop resumes every handler that can go on, and every send,
\* broadcast and agent call comes to an end.
SpecServerFair == SpecServer /\ \A c \in Conns : WF_vars(Resume(c))

\* The awaits of handle_send_message between the set and the reset of
\* is_processing.
Processing ==
    {"broadcast_user_message", "broadcast_processing_start", "run_in_executor",
     "broadcast_ai_response", "broadcast_processing_end", "broadcast_error"}

\* The connections whose send_message is being processed.
InProcessing == {c \in Conns : server.conns[c].pc \in Processing}

\* C26: at most one agent invocation is in flight and at most one
\* send_message is being processed, whatever the connections send and however
\* their handlers interleave; a send_message received while another is being
\* processed invokes no agent, and all that handler does next is to send the
\* error.
C26_OneInvocationInFlight ==
    /\ [](/\ server.in_flight <= 1
          /\ Cardinality(InProcessing) <= 1
          /\ server.is_processing <=> InProcessing # {})
    /\ [][\A c \in Conns :
             /\ (server.is_processing /\ server.conns[c].pc = "idle"
                     /\ ReceiveSendMessage(c))
                => (/\ server'.conns[c].pc = "reply_processing"
                    /\ server'.in_flight = server.in_flight)
             /\ (server.conns[c].pc = "reply_processing"
                     /\ server'.conns[c] # server.conns[c])
                => (/\ server'.conns[c] = [pc |-> "idle", reply |-> "error: processing"]
                    /\ server'.in_flight = server.in_flight)]_vars

\* The agent runs for one connection while another, whose send_message
\* arrived meanwhile, is being sent the error.
C26_Witness ==
    \E c, d \in Conns :
        /\ server.conns[c].pc = "run_in_executor"
        /\ server.in_flight = 1
        /\ server.conns[d].pc = "reply_processing"

\* C30: every send_message that has started processing comes to the reset
\* of is_processing with its handler returned, whether the agent returned or
\* raised, so that the server does not stay in the processing state.
C30_ProcessingEnds ==
    \A c \in Conns :
        (server.conns[c].pc \in Processing)
            ~> (server.conns[c].pc = "idle" /\ ~server.is_processing)

\* One send_message has ended with the error of a failed invocation, another
\* with processing_end, and is_processing is clear.
C30_Witness ==
    /\ ~server.is_processing
    /\ \E c, d \in Conns :
           /\ server.conns[c] = [pc |-> "idle", reply |-> "error: failed"]
           /\ server.conns[d] = [pc |-> "idle", reply |-> "processing_end"]

====
